---- MODULE Spec2Model ----
(***************************************************************************)
(* State-machine model of bittensor/extrinsics/registration.py:            *)
(* register_extrinsic (proof-of-work registration),                        *)
(* burned_register_extrinsic (fee-based registration),                     *)
(* run_faucet_extrinsic (faucet loop) and swap_hotkey_extrinsic, run as a  *)
(* sequence of top-level calls against one ledger.  The Chain Client (subtensor), the Solver     *)
(* (create_pow), the confirmation prompt and the interrupt signal are the  *)
(* environment: every answer they can give is a nondeterministic choice.   *)
(***************************************************************************)
EXTENDS Integers, Sequences, FiniteSets, TLC

\* ---- bounds of the model ------------------------------------------------
MaxN == 2          \* max_allowed_attempts ranges over 1..MaxN
MaxSolves == 4     \* create_pow calls explored per top-level call
MaxSubmits == 4    \* submissions explored per top-level call
MaxCalls == 2      \* top-level calls in sequence

\* ---- program constants --------------------------------------------------
MaxSuccesses == 3  \* the literal 3 of the faucet's success ceiling

VARIABLES
  subnet,               \* ledger: subtensor.subnet_exists(netuid)
  registered,           \* ledger: the hotkey is registered on the subnet
  torch,                \* the imported torch module is usable
  callNo,               \* index of the current top-level call
  prev,                 \* the previous call, when it was a register_extrinsic call that returned True
  fn,                   \* function being executed
  pc,                   \* position inside it
  max_allowed_attempts, \* argument
  prompt,               \* argument
  cuda,                 \* argument
  attempts,             \* local of the two orchestrators
  successes,            \* local of run_faucet_extrinsic
  pow_result,           \* 0 is None, s > 0 is the s-th Solver result
  response,             \* faucet: is_success of the response being handled
  result,               \* what the call returned (or raised)
  retLine,              \* source line of the return taken
  cnt                   \* per-call history of calls made and answers received

ledger == <<subnet, registered, torch>>
args == <<fn, max_allowed_attempts, prompt, cuda, callNo, prev>>
locals == <<attempts, successes, pow_result, response>>
vars == <<subnet, registered, torch, callNo, prev, fn, pc, max_allowed_attempts,
          prompt, cuda, attempts, successes, pow_result, response, result,
          retLine, cnt>>

NoPrev == [fn |-> "none", ok |-> "none", line |-> 0, reg |-> FALSE]

NoResult == [ok |-> "none", msg |-> "", arg |-> 0]

ZeroCnt ==
  [ solve |-> 0,      \* create_pow calls
    null |-> 0,       \* create_pow calls that returned None
    nullUnreg |-> 0,  \* ... after which the hotkey was probed not registered
    cudaOff |-> 0,    \* torch.cuda.is_available() answered False
    probe |-> 0,      \* registration probes (neuron lookup, is_hotkey_registered)
    staleFirst |-> 0, \* is_stale answered True for a never-submitted solution
    staleLater |-> 0, \* is_stale answered True for an already-submitted solution
    fresh |-> 0,      \* is_stale answered False
    submit |-> 0,     \* submissions
    ok |-> 0,         \* submissions that reported success
    generic |-> 0,    \* register: submissions rejected with another error text
    fail |-> 0,       \* faucet: submissions whose response is not is_success
    already |-> 0,    \* submissions rejected with "key is already registered"
    noneErr |-> 0,    \* submissions rejected with err_msg None
    unconf |-> 0,     \* confirmation probes that answered not registered
    curSubs |-> 0,    \* submissions of the current pow_result
    curRej |-> 0,     \* rejections of the current pow_result
    consec |-> 0,     \* faucet: failed submissions since the last success
    declined |-> 0,   \* Confirm.ask answered no
    transport |-> 0,  \* register: a Chain Client call raised instead of answering
    intr |-> 0 ]      \* KeyboardInterrupt delivered

Bump(c, f) == [c EXCEPT ![f] = @ + 1]

Return(ok, msg, arg, line) ==
  /\ pc' = "done"
  /\ result' = [ok |-> ok, msg |-> msg, arg |-> arg]
  /\ retLine' = line

Goto(p) ==
  /\ pc' = p
  /\ UNCHANGED <<result, retLine>>

Functions == {"register", "burned", "faucet", "swap"}

EntryPc(f) ==
  CASE f = "register" -> "r_subnet"
    [] f = "burned" -> "b_subnet"
    [] f = "faucet" -> "f_prompt"
    [] f = "swap" -> "s_prompt"

\* only the two proof-of-work orchestrators take max_allowed_attempts and cuda
HasPow(f) == f \in {"register", "faucet"}

AttemptArgs(f) == IF HasPow(f) THEN 1..MaxN ELSE {0}

CudaArgs(f) == IF HasPow(f) THEN BOOLEAN ELSE {FALSE}

Init ==
  /\ subnet \in BOOLEAN
  /\ registered \in BOOLEAN
  /\ registered => subnet
  /\ torch \in BOOLEAN
  /\ callNo = 1
  /\ prev = NoPrev
  /\ fn \in Functions
  /\ pc = EntryPc(fn)
  /\ max_allowed_attempts \in AttemptArgs(fn)
  /\ prompt \in BOOLEAN
  /\ cuda \in CudaArgs(fn)
  /\ attempts = 0
  /\ successes = 0
  /\ pow_result = 0
  /\ response = "none"
  /\ result = NoResult
  /\ retLine = 0
  /\ cnt = ZeroCnt

\* ---- register_extrinsic -------------------------------------------------

\* the subnet_exists test is missing
RSubnet_Unchecked ==
  /\ fn = "register" /\ pc = "r_subnet"
  /\ Goto("r_probe")
  /\ UNCHANGED <<ledger, args, locals, cnt>>

RSubnet ==
  /\ fn = "register" /\ pc = "r_subnet"
  /\ IF ~subnet
       THEN Return("False", "", 0, 89)
       ELSE Goto("r_probe")
  /\ UNCHANGED <<ledger, args, locals, cnt>>

\* the precondition probe's answer is dropped
RProbe_Ignored ==
  /\ fn = "register" /\ pc = "r_probe"
  /\ cnt' = Bump(cnt, "probe")
  /\ Goto("r_prompt")
  /\ UNCHANGED <<ledger, args, locals>>

\* the test of neuron.is_null is inverted
RProbe_Inverted ==
  /\ fn = "register" /\ pc = "r_probe"
  /\ cnt' = Bump(cnt, "probe")
  /\ IF ~registered
       THEN Return("True", "", 0, 101)
       ELSE Goto("r_prompt")
  /\ UNCHANGED <<ledger, args, locals>>

RProbe ==
  /\ fn = "register" /\ pc = "r_probe"
  /\ cnt' = Bump(cnt, "probe")
  /\ IF registered
       THEN Return("True", "", 0, 101)
       ELSE Goto("r_prompt")
  /\ UNCHANGED <<ledger, args, locals>>

RPrompt ==
  /\ fn = "register" /\ pc = "r_prompt"
  /\ \E answer \in BOOLEAN :
       IF prompt /\ ~answer
         THEN /\ Return("False", "", 0, 111)
              /\ cnt' = Bump(cnt, "declined")
              /\ UNCHANGED attempts
         ELSE /\ UNCHANGED cnt
              /\ IF ~torch
                   THEN Return("False", "", 0, 115) /\ UNCHANGED attempts
                   ELSE Goto("r_solve") /\ attempts' = 1
  /\ UNCHANGED <<ledger, args, successes, pow_result, response>>

RSolve ==
  /\ fn = "register" /\ pc = "r_solve"
  /\ cnt.solve < MaxSolves
  /\ \E avail \in BOOLEAN, solved \in BOOLEAN :
       IF cuda /\ ~avail
         THEN /\ Return("False", "", 0, 128)
              /\ cnt' = Bump(cnt, "cudaOff")
              /\ UNCHANGED pow_result
         ELSE /\ pow_result' = IF solved THEN cnt.solve + 1 ELSE 0
              /\ cnt' = [cnt EXCEPT !.solve = @ + 1,
                                    !.null = IF solved THEN @ ELSE @ + 1,
                                    !.curSubs = 0, !.curRej = 0]
              /\ Goto(IF solved THEN "r_stale" ELSE "r_nullprobe")
  /\ UNCHANGED <<ledger, args, attempts, successes, response>>

\* the ceiling test admits one attempt too many (<= for <)
AttemptAccounting_OffByOne ==
  IF attempts <= max_allowed_attempts
    THEN attempts' = attempts + 1 /\ Goto("r_solve")
    ELSE UNCHANGED attempts /\ Return("False", "", 0, 226)

\* a counted failure goes back to the precondition check, not to the Solver
AttemptAccounting_Recheck ==
  IF attempts < max_allowed_attempts
    THEN attempts' = attempts + 1 /\ Goto("r_subnet")
    ELSE UNCHANGED attempts /\ Return("False", "", 0, 226)

\* a counted failure ends the call whatever the ceiling
AttemptAccounting_Fatal ==
  UNCHANGED attempts /\ Return("False", "", 0, 226)

AttemptAccounting ==
  IF attempts < max_allowed_attempts
    THEN attempts' = attempts + 1 /\ Goto("r_solve")
    ELSE UNCHANGED attempts /\ Return("False", "", 0, 226)

RNullProbe ==
  /\ fn = "register" /\ pc = "r_nullprobe"
  /\ IF registered
       THEN /\ Return("True", "", 0, 163)
            /\ cnt' = Bump(cnt, "probe")
            /\ UNCHANGED attempts
       ELSE /\ cnt' = Bump(Bump(cnt, "probe"), "nullUnreg")
            /\ AttemptAccounting
  /\ UNCHANGED <<ledger, args, successes, pow_result, response>>

\* the stale exit falls through to the attempt accounting
RStale_Counted ==
  /\ fn = "register" /\ pc = "r_stale"
  /\ \E stale \in BOOLEAN :
       IF stale
         THEN /\ cnt' = Bump(cnt, IF cnt.curSubs = 0 THEN "staleFirst" ELSE "staleLater")
              /\ AttemptAccounting
         ELSE /\ cnt' = Bump(cnt, "fresh")
              /\ Goto("r_submit")
              /\ UNCHANGED attempts
  /\ UNCHANGED <<ledger, args, successes, pow_result, response>>

\* the answer of is_stale is not acted on
RStale_Ignored ==
  /\ fn = "register" /\ pc = "r_stale"
  /\ \E stale \in BOOLEAN :
       /\ cnt' = IF stale
                   THEN Bump(cnt, IF cnt.curSubs = 0 THEN "staleFirst" ELSE "staleLater")
                   ELSE Bump(cnt, "fresh")
       /\ Goto("r_submit")
  /\ UNCHANGED <<ledger, args, locals>>

RStale ==
  /\ fn = "register" /\ pc = "r_stale"
  /\ \E stale \in BOOLEAN :
       IF stale
         THEN /\ cnt' = Bump(cnt, IF cnt.curSubs = 0 THEN "staleFirst" ELSE "staleLater")
              /\ Goto("r_solve")
         ELSE /\ cnt' = Bump(cnt, "fresh")
              /\ Goto("r_submit")
  /\ UNCHANGED <<ledger, args, locals>>

\* a successful submission returns True without the confirming probe
RSubmit_TrustFlag ==
  /\ fn = "register" /\ pc = "r_submit"
  /\ cnt.submit < MaxSubmits
  /\ \E r \in {"ok", "already", "generic", "none"} :
       /\ cnt' = [Bump(Bump(Bump(cnt, "submit"), "curSubs"),
                       IF r = "none" THEN "noneErr" ELSE r)
                    EXCEPT !.curRej = IF r = "ok" THEN @ ELSE @ + 1]
       /\ CASE r = "ok" ->
                 /\ Return("True", "", 0, 202)
                 /\ registered' \in {registered, TRUE}
            [] r = "already" ->
                 /\ Return("True", "", 0, 185)
                 /\ UNCHANGED registered
            [] r = "none" ->
                 /\ Return("raise", "TypeError", 0, 180)
                 /\ UNCHANGED registered
            [] r = "generic" ->
                 /\ Goto("r_stale")
                 /\ UNCHANGED registered
  /\ UNCHANGED <<subnet, torch, args, locals>>

\* a generic rejection leaves the submit loop and is counted as an attempt
RSubmit_BreakOnReject ==
  /\ fn = "register" /\ pc = "r_submit"
  /\ cnt.submit < MaxSubmits
  /\ \E r \in {"ok", "already", "generic", "none"} :
       /\ cnt' = [Bump(Bump(Bump(cnt, "submit"), "curSubs"),
                       IF r = "none" THEN "noneErr" ELSE r)
                    EXCEPT !.curRej = IF r = "ok" THEN @ ELSE @ + 1]
       /\ CASE r = "ok" ->
                 /\ Goto("r_confirm")
                 /\ registered' \in {registered, TRUE}
                 /\ UNCHANGED attempts
            [] r = "already" ->
                 /\ Return("True", "", 0, 185)
                 /\ UNCHANGED <<registered, attempts>>
            [] r = "none" ->
                 /\ Return("raise", "TypeError", 0, 180)
                 /\ UNCHANGED <<registered, attempts>>
            [] r = "generic" ->
                 /\ AttemptAccounting
                 /\ UNCHANGED registered
  /\ UNCHANGED <<subnet, torch, args, successes, pow_result, response>>

\* the "key is already registered" test is missing
RSubmit_NoAlreadyTest ==
  /\ fn = "register" /\ pc = "r_submit"
  /\ cnt.submit < MaxSubmits
  /\ \E r \in {"ok", "already", "generic", "none"} :
       /\ cnt' = [Bump(Bump(Bump(cnt, "submit"), "curSubs"),
                       IF r = "none" THEN "noneErr" ELSE r)
                    EXCEPT !.curRej = IF r = "ok" THEN @ ELSE @ + 1]
       /\ IF r = "ok"
            THEN Goto("r_confirm") /\ registered' \in {registered, TRUE}
            ELSE Goto("r_stale") /\ UNCHANGED registered
  /\ UNCHANGED <<subnet, torch, args, locals>>

RSubmit ==
  /\ fn = "register" /\ pc = "r_submit"
  /\ cnt.submit < MaxSubmits
  /\ \E r \in {"ok", "already", "generic", "none"} :
       /\ cnt' = [Bump(Bump(Bump(cnt, "submit"), "curSubs"),
                       IF r = "none" THEN "noneErr" ELSE r)
                    EXCEPT !.curRej = IF r = "ok" THEN @ ELSE @ + 1]
       /\ CASE r = "ok" ->
                 /\ Goto("r_confirm")
                 /\ registered' \in {registered, TRUE}
            [] r = "already" ->
                 /\ Return("True", "", 0, 185)
                 /\ UNCHANGED registered
            [] r = "none" ->
                 /\ Return("raise", "TypeError", 0, 180)
                 /\ UNCHANGED registered
            [] r = "generic" ->
                 /\ Goto("r_stale")
                 /\ UNCHANGED registered
  /\ UNCHANGED <<subnet, torch, args, locals>>

\* the submission's success flag is trusted whatever the probe answers
RConfirm_TrustFlag ==
  /\ fn = "register" /\ pc = "r_confirm"
  /\ Return("True", "", 0, 202)
  /\ cnt' = IF registered THEN Bump(cnt, "probe") ELSE Bump(Bump(cnt, "probe"), "unconf")
  /\ UNCHANGED <<ledger, args, locals>>

RConfirm ==
  /\ fn = "register" /\ pc = "r_confirm"
  /\ IF registered
       THEN /\ Return("True", "", 0, 202)
            /\ cnt' = Bump(cnt, "probe")
       ELSE /\ Goto("r_stale")
            /\ cnt' = Bump(Bump(cnt, "probe"), "unconf")
  /\ UNCHANGED <<ledger, args, locals>>

\* a Chain Client call of register_extrinsic (subnet_exists, the neuron
\* lookup, is_hotkey_registered, is_stale's block query, do_pow_register)
\* raises: no try statement encloses any of them
RTransportFailure ==
  /\ fn = "register"
  /\ pc \in {"r_subnet", "r_probe", "r_nullprobe", "r_stale", "r_submit", "r_confirm"}
  /\ cnt' = Bump(cnt, "transport")
  /\ Return("raise", "TransportFailure", 0,
            CASE pc = "r_subnet" -> 83
              [] pc = "r_probe" -> 94
              [] pc = "r_nullprobe" -> 156
              [] pc = "r_stale" -> 169
              [] pc = "r_submit" -> 170
              [] pc = "r_confirm" -> 195)
  /\ UNCHANGED <<ledger, args, locals>>

\* ---- burned_register_extrinsic ------------------------------------------

BSubnet ==
  /\ fn = "burned" /\ pc = "b_subnet"
  /\ IF ~subnet
       THEN Return("False", "", 0, 256)
       ELSE Goto("b_probe")
  /\ UNCHANGED <<ledger, args, locals, cnt>>

\* the neuron lookup, the balance and the recycle amount are read, then the
\* lookup's answer is tested
BProbe ==
  /\ fn = "burned" /\ pc = "b_probe"
  /\ cnt' = Bump(cnt, "probe")
  /\ IF registered
       THEN Return("True", "", 0, 279)
       ELSE Goto("b_prompt")
  /\ UNCHANGED <<ledger, args, locals>>

BPrompt ==
  /\ fn = "burned" /\ pc = "b_prompt"
  /\ \E answer \in BOOLEAN :
       IF prompt /\ ~answer
         THEN /\ Return("False", "", 0, 284)
              /\ cnt' = Bump(cnt, "declined")
         ELSE /\ UNCHANGED cnt
              /\ Goto("b_submit")
  /\ UNCHANGED <<ledger, args, locals>>

\* a failed submission is tried again
BSubmit_Retry ==
  /\ fn = "burned" /\ pc = "b_submit"
  /\ cnt.submit < MaxSubmits
  /\ \E r \in {"ok", "already", "generic", "none"} :
       /\ cnt' = Bump(Bump(cnt, "submit"), IF r = "none" THEN "noneErr" ELSE r)
       /\ IF r = "ok"
            THEN /\ Goto("b_confirm")
                 /\ registered' \in {registered, TRUE}
            ELSE /\ Goto("b_submit")
                 /\ UNCHANGED registered
  /\ UNCHANGED <<subnet, torch, args, locals>>

BSubmit ==
  /\ fn = "burned" /\ pc = "b_submit"
  /\ cnt.submit < MaxSubmits
  /\ \E r \in {"ok", "already", "generic", "none"} :
       /\ cnt' = Bump(Bump(cnt, "submit"), IF r = "none" THEN "noneErr" ELSE r)
       /\ IF r = "ok"
            THEN /\ Goto("b_confirm")
                 /\ registered' \in {registered, TRUE}
            ELSE /\ Return("False", "", 0, 299)
                 /\ UNCHANGED registered
  /\ UNCHANGED <<subnet, torch, args, locals>>

\* the submission's success flag is trusted whatever the probe answers
BConfirm_TrustFlag ==
  /\ fn = "burned" /\ pc = "b_confirm"
  /\ Return("True", "", 0, 320)
  /\ cnt' = IF registered THEN Bump(cnt, "probe") ELSE Bump(Bump(cnt, "probe"), "unconf")
  /\ UNCHANGED <<ledger, args, locals>>

BConfirm ==
  /\ fn = "burned" /\ pc = "b_confirm"
  /\ IF registered
       THEN /\ Return("True", "", 0, 320)
            /\ cnt' = Bump(cnt, "probe")
       ELSE /\ Return("False", "", 0, 326)
            /\ cnt' = Bump(Bump(cnt, "probe"), "unconf")
  /\ UNCHANGED <<ledger, args, locals>>

\* ---- swap_hotkey_extrinsic ----------------------------------------------

SPrompt ==
  /\ fn = "swap" /\ pc = "s_prompt"
  /\ \E answer \in BOOLEAN :
       IF prompt /\ ~answer
         THEN /\ Return("False", "", 0, 506)
              /\ cnt' = Bump(cnt, "declined")
         ELSE /\ UNCHANGED cnt
              /\ Goto("s_submit")
  /\ UNCHANGED <<ledger, args, locals>>

\* a failed swap is submitted again
SSubmit_Retry ==
  /\ fn = "swap" /\ pc = "s_submit"
  /\ cnt.submit < MaxSubmits
  /\ \E success \in BOOLEAN :
       /\ cnt' = Bump(Bump(cnt, "submit"), IF success THEN "ok" ELSE "fail")
       /\ IF success
            THEN Return("True", "", 0, 527)
            ELSE Goto("s_submit")
  /\ UNCHANGED <<ledger, args, locals>>

SSubmit ==
  /\ fn = "swap" /\ pc = "s_submit"
  /\ cnt.submit < MaxSubmits
  /\ \E success \in BOOLEAN :
       /\ cnt' = Bump(Bump(cnt, "submit"), IF success THEN "ok" ELSE "fail")
       /\ IF success
            THEN Return("True", "", 0, 527)
            ELSE Return("False", "", 0, 521)
  /\ UNCHANGED <<ledger, args, locals>>

\* ---- run_faucet_extrinsic -----------------------------------------------

FPrompt ==
  /\ fn = "faucet" /\ pc = "f_prompt"
  /\ \E answer \in BOOLEAN :
       IF prompt /\ ~answer
         THEN /\ Return("False", "", 0, 371)
              /\ cnt' = Bump(cnt, "declined")
         ELSE /\ UNCHANGED cnt
              /\ IF ~torch
                   THEN Return("False", "Requires torch", 0, 375)
                   ELSE Goto("f_balance")
  /\ UNCHANGED <<ledger, args, locals>>

\* old_balance is read, the counters are set, and the first pass of the
\* outer loop sets pow_result = None, which makes the inner loop's condition
\* true without an is_stale call
FBalance ==
  /\ fn = "faucet" /\ pc = "f_balance"
  /\ attempts' = 1
  /\ successes' = 1
  /\ pow_result' = 0
  /\ Goto("f_solve")
  /\ UNCHANGED <<ledger, args, response, cnt>>

FSolve ==
  /\ fn = "faucet" /\ pc = "f_solve"
  /\ cnt.solve < MaxSolves
  /\ \E avail \in BOOLEAN, solved \in BOOLEAN :
       IF cuda /\ ~avail
         THEN /\ Return("False", "CUDA is not available.", 0, 395)
              /\ cnt' = Bump(cnt, "cudaOff")
              /\ UNCHANGED pow_result
         ELSE /\ pow_result' = IF solved THEN cnt.solve + 1 ELSE 0
              /\ cnt' = [cnt EXCEPT !.solve = @ + 1,
                                    !.null = IF solved THEN @ ELSE @ + 1,
                                    !.curSubs = 0, !.curRej = 0]
              /\ Goto(IF solved THEN "f_stale" ELSE "f_solve")
  /\ UNCHANGED <<ledger, args, attempts, successes, response>>

\* a stale solution is counted against the attempt ceiling
FStale_Counted ==
  /\ fn = "faucet" /\ pc = "f_stale"
  /\ \E stale \in BOOLEAN :
       IF stale
         THEN /\ cnt' = Bump(cnt, "staleFirst")
              /\ IF attempts = max_allowed_attempts
                   THEN /\ Return("False", "Max attempts reached",
                                  max_allowed_attempts, 466)
                        /\ UNCHANGED attempts
                   ELSE /\ attempts' = attempts + 1
                        /\ Goto("f_solve")
         ELSE /\ cnt' = Bump(cnt, "fresh")
              /\ Goto("f_submit")
              /\ UNCHANGED attempts
  /\ UNCHANGED <<ledger, args, successes, pow_result, response>>

FStale ==
  /\ fn = "faucet" /\ pc = "f_stale"
  /\ \E stale \in BOOLEAN :
       IF stale
         THEN /\ cnt' = Bump(cnt, "staleFirst")
              /\ Goto("f_solve")
         ELSE /\ cnt' = Bump(cnt, "fresh")
              /\ Goto("f_submit")
  /\ UNCHANGED <<ledger, args, locals>>

FSubmit ==
  /\ fn = "faucet" /\ pc = "f_submit"
  /\ cnt.submit < MaxSubmits
  /\ \E is_success \in BOOLEAN :
       /\ response' = IF is_success THEN "ok" ELSE "fail"
       /\ cnt' = [Bump(Bump(Bump(cnt, "submit"), "curSubs"),
                       IF is_success THEN "ok" ELSE "fail")
                    EXCEPT !.consec = IF is_success THEN 0 ELSE @ + 1,
                           !.curRej = IF is_success THEN @ ELSE @ + 1]
  /\ Goto("f_outcome")
  /\ UNCHANGED <<ledger, args, attempts, successes, pow_result>>

\* the success ceiling is tested with > instead of ==
FOutcome_LateCeiling ==
  /\ fn = "faucet" /\ pc = "f_outcome"
  /\ IF response = "fail"
       THEN IF attempts = max_allowed_attempts
              THEN /\ Return("False", "Max attempts reached", max_allowed_attempts, 466)
                   /\ UNCHANGED <<attempts, successes, pow_result, response>>
              ELSE /\ attempts' = attempts + 1
                   /\ pow_result' = 0
                   /\ response' = "none"
                   /\ Goto("f_solve")
                   /\ UNCHANGED successes
       ELSE IF successes > MaxSuccesses
              THEN /\ Return("True", "Max successes reached", MaxSuccesses, 463)
                   /\ UNCHANGED <<attempts, successes, pow_result, response>>
              ELSE /\ successes' = successes + 1
                   /\ pow_result' = 0
                   /\ response' = "none"
                   /\ Goto("f_solve")
                   /\ UNCHANGED attempts
  /\ UNCHANGED <<ledger, args, cnt>>

\* a success resets the attempt counter
FOutcome_ResetOnSuccess ==
  /\ fn = "faucet" /\ pc = "f_outcome"
  /\ IF response = "fail"
       THEN IF attempts = max_allowed_attempts
              THEN /\ Return("False", "Max attempts reached", max_allowed_attempts, 466)
                   /\ UNCHANGED <<attempts, successes, pow_result, response>>
              ELSE /\ attempts' = attempts + 1
                   /\ pow_result' = 0
                   /\ response' = "none"
                   /\ Goto("f_solve")
                   /\ UNCHANGED successes
       ELSE IF successes = MaxSuccesses
              THEN /\ Return("True", "Max successes reached", MaxSuccesses, 463)
                   /\ UNCHANGED <<attempts, successes, pow_result, response>>
              ELSE /\ successes' = successes + 1
                   /\ attempts' = 1
                   /\ pow_result' = 0
                   /\ response' = "none"
                   /\ Goto("f_solve")
  /\ UNCHANGED <<ledger, args, cnt>>

FOutcome ==
  /\ fn = "faucet" /\ pc = "f_outcome"
  /\ IF response = "fail"
       THEN IF attempts = max_allowed_attempts
              THEN /\ Return("False", "Max attempts reached", max_allowed_attempts, 466)
                   /\ UNCHANGED <<attempts, successes, pow_result, response>>
              ELSE /\ attempts' = attempts + 1
                   /\ pow_result' = 0
                   /\ response' = "none"
                   /\ Goto("f_solve")
                   /\ UNCHANGED successes
       ELSE IF successes = MaxSuccesses
              THEN /\ Return("True", "Max successes reached", MaxSuccesses, 463)
                   /\ UNCHANGED <<attempts, successes, pow_result, response>>
              ELSE /\ successes' = successes + 1
                   /\ pow_result' = 0
                   /\ response' = "none"
                   /\ Goto("f_solve")
                   /\ UNCHANGED attempts
  /\ UNCHANGED <<ledger, args, cnt>>

\* KeyboardInterrupt: caught inside the try block of the loop, not before it
FInterrupt ==
  /\ fn = "faucet"
  /\ pc \in {"f_prompt", "f_balance", "f_solve", "f_stale", "f_submit", "f_outcome"}
  /\ cnt' = Bump(cnt, "intr")
  /\ IF pc \in {"f_prompt", "f_balance"}
       THEN Return("raise", "KeyboardInterrupt", 0, IF pc = "f_prompt" THEN 365 ELSE 381)
       ELSE Return("True", "Done", 0, 460)
  /\ UNCHANGED <<ledger, args, locals>>

\* ---- environment --------------------------------------------------------

\* a concurrent actor registers the same hotkey
OtherActorRegisters ==
  /\ subnet /\ ~registered
  /\ registered' = TRUE
  /\ UNCHANGED <<subnet, torch, args, locals, pc, result, retLine, cnt>>

\* the caller makes the next top-level call
StartCall ==
  /\ pc = "done"
  /\ callNo < MaxCalls
  /\ callNo' = callNo + 1
  /\ prev' = IF fn = "register" /\ result.ok = "True"
               THEN [fn |-> fn, ok |-> result.ok, line |-> retLine, reg |-> registered]
               ELSE NoPrev
  /\ fn' \in Functions
  /\ pc' = EntryPc(fn')
  /\ max_allowed_attempts' \in AttemptArgs(fn')
  /\ prompt' \in BOOLEAN
  /\ cuda' \in CudaArgs(fn')
  /\ attempts' = 0
  /\ successes' = 0
  /\ pow_result' = 0
  /\ response' = "none"
  /\ result' = NoResult
  /\ retLine' = 0
  /\ cnt' = ZeroCnt
  /\ UNCHANGED ledger

Next ==
  \/ RSubnet
  \/ RProbe
  \/ RPrompt
  \/ RSolve
  \/ RNullProbe
  \/ RStale
  \/ RSubmit
  \/ RConfirm
  \/ RTransportFailure
  \/ BSubnet
  \/ BProbe
  \/ BPrompt
  \/ BSubmit
  \/ BConfirm
  \/ SPrompt
  \/ SSubmit
  \/ FPrompt
  \/ FBalance
  \/ FSolve
  \/ FStale
  \/ FSubmit
  \/ FOutcome
  \/ FInterrupt
  \/ OtherActorRegisters
  \/ StartCall

Spec == Init /\ [][Next]_vars

TypeOK ==
  /\ pc \in {"r_subnet", "r_probe", "r_prompt", "r_solve", "r_nullprobe",
             "r_stale", "r_submit", "r_confirm", "b_subnet", "b_probe",
             "b_prompt", "b_submit", "b_confirm", "s_prompt", "s_submit",
             "f_prompt", "f_balance",
             "f_solve", "f_stale", "f_submit", "f_outcome", "done"}
  /\ attempts \in 0..MaxN
  /\ successes \in 0..MaxSuccesses
  /\ pow_result \in 0..MaxSolves
  /\ registered => subnet

\* ---- properties ---------------------------------------------------------

InSubmitLoop == pc \in {"r_stale", "r_submit", "r_confirm"}

\* C1 (as claimed): with an existing subnet, an unregistered hotkey, a Solver
\* that always returns a solution and submissions that are all rejected with
\* a generic error, the call makes at most N = max_allowed_attempts Solver
\* calls and N submissions, and has returned False once the N-th rejection
\* has been received, after exactly N Solver calls.
C1_Scenario ==
  /\ fn = "register" /\ attempts >= 1
  /\ subnet /\ ~registered
  /\ cnt.null = 0 /\ cnt.cudaOff = 0
  /\ cnt.staleFirst = 0 /\ cnt.staleLater = 0
  /\ cnt.submit = cnt.generic

C1_Claim ==
  C1_Scenario =>
    /\ cnt.solve <= max_allowed_attempts
    /\ cnt.submit <= max_allowed_attempts
    /\ cnt.generic = max_allowed_attempts =>
         pc = "done" /\ result.ok = "False" /\ cnt.solve = max_allowed_attempts

\* C2: when the precondition probe of register_extrinsic answers that the
\* hotkey is registered, the step that evaluates it returns True, and
\* neither the Solver nor a submission has been invoked in the call.
C2_ShortCircuit ==
  [][(fn = "register" /\ pc = "r_probe" /\ registered /\ cnt'.probe = cnt.probe + 1) =>
       /\ pc' = "done" /\ result'.ok = "True"
       /\ cnt'.solve = 0 /\ cnt'.submit = 0]_vars

C2_Witness ==
  /\ fn = "register" /\ pc = "done" /\ retLine = 101
  /\ subnet /\ registered /\ result.ok = "True" /\ cnt.probe = 1

\* C3 (as claimed): once a submission of the current solution has been
\* rejected, the submit loop has been left (the solution is not checked for
\* staleness or submitted again), and every generic rejection has been
\* counted in the attempt counter.
C3_Claim ==
  fn = "register" =>
    /\ cnt.curRej >= 1 => ~InSubmitLoop
    /\ (attempts >= 1 /\ pc # "done") => attempts >= 1 + cnt.generic

\* C4 (as claimed): after the Solver returned no solution and the hotkey was
\* probed not registered, the call has returned False.
C4_Claim ==
  (fn = "register" /\ cnt.nullUnreg >= 1) => (pc = "done" /\ result.ok = "False")

\* C4 (amended): a Solver result of None for an unregistered hotkey is a
\* counted failure: below the ceiling the attempt counter is 1 plus the
\* number of such results and the call has not given up; the call returns
\* False from the ceiling branch exactly on the max_allowed_attempts-th one.
C4_Amended ==
  fn = "register" =>
    /\ cnt.nullUnreg <= max_allowed_attempts
    /\ (attempts >= 1 /\ cnt.nullUnreg < max_allowed_attempts) =>
         (attempts = 1 + cnt.nullUnreg /\ retLine # 226)
    /\ cnt.nullUnreg = max_allowed_attempts =>
         (pc = "done" /\ result.ok = "False" /\ retLine = 226)

C4_Witness ==
  /\ fn = "register" /\ pc = "done" /\ retLine = 226
  /\ max_allowed_attempts >= 2 /\ cnt.nullUnreg = max_allowed_attempts
  /\ cnt.solve >= 2

\* C5: the step in which a submission of register_extrinsic is rejected with
\* "key is already registered" returns True, is the only call made in that
\* step, and leaves the attempt counter alone; nothing more happens in that
\* call afterwards.
C5_AlreadyRegistered ==
  [][/\ (fn = "register" /\ cnt'.already > cnt.already) =>
          /\ pc' = "done" /\ result'.ok = "True" /\ retLine' = 185
          /\ attempts' = attempts
          /\ cnt'.solve = cnt.solve /\ cnt'.submit = cnt.submit + 1
     /\ (fn = "register" /\ cnt.already >= 1 /\ callNo' = callNo) =>
          (cnt' = cnt /\ attempts' = attempts /\ pc' = "done")]_vars

C5_Witness ==
  /\ fn = "register" /\ pc = "done" /\ retLine = 185
  /\ result.ok = "True" /\ cnt.already = 1 /\ attempts >= 2

\* C6: for every k >= 1, when the only answers the call received in its loop
\* are k stale answers for never-submitted solutions, one fresh answer, one
\* successful submission and a confirming probe, the call has returned True
\* after exactly k+1 Solver calls and one submission, with attempts still 1.
C6_Scenario(k) ==
  /\ fn = "register"
  /\ cnt.staleFirst = k /\ cnt.staleLater = 0
  /\ cnt.null = 0 /\ cnt.cudaOff = 0
  /\ cnt.generic = 0 /\ cnt.already = 0 /\ cnt.noneErr = 0
  /\ cnt.ok = 1 /\ cnt.unconf = 0 /\ cnt.probe = 2

C6_StaleThenSuccess ==
  \A k \in 1..(MaxSolves + 1) :
    C6_Scenario(k) =>
      /\ pc = "done" /\ result.ok = "True"
      /\ cnt.solve = k + 1 /\ cnt.submit = 1
      /\ attempts = 1

C6_Witness ==
  /\ C6_Scenario(2) /\ pc = "done" /\ retLine = 202 /\ cnt.solve = 3

\* C7: a step of register_extrinsic in which is_stale answers True leaves the
\* submit loop, keeps the attempt counter and goes to the Solver call;
\* and a call whose loop saw no Solver failure, no unavailable CUDA device
\* and no rejected or unconfirmed submission (only stale solutions) has not
\* returned False.
C7_StaleNotCounted ==
  /\ [][(fn = "register" /\ pc = "r_stale" /\
          cnt'.staleFirst + cnt'.staleLater > cnt.staleFirst + cnt.staleLater) =>
          (attempts' = attempts /\ pc' = "r_solve")]_vars
  /\ [](( /\ fn = "register" /\ attempts >= 1
          /\ cnt.null = 0 /\ cnt.cudaOff = 0 /\ cnt.generic = 0
          /\ cnt.already = 0 /\ cnt.noneErr = 0 /\ cnt.unconf = 0 )
        => result.ok # "False")

C7_Witness ==
  /\ fn = "register" /\ pc = "r_solve"
  /\ max_allowed_attempts = 1 /\ attempts = 1
  /\ cnt.staleFirst + cnt.staleLater >= 2
  /\ cnt.null = 0 /\ cnt.generic = 0

\* C8: a register_extrinsic call that directly follows a register_extrinsic
\* call which returned True with the hotkey registered on the ledger, and
\* whose Chain Client calls are answered, makes no Solver call and no
\* submission, never gets past the precondition probe, and returns True.
C8_Idempotent ==
  ( /\ callNo >= 2 /\ fn = "register"
    /\ prev.fn = "register" /\ prev.ok = "True" /\ prev.reg
    /\ cnt.transport = 0 )
  => /\ cnt.solve = 0 /\ cnt.submit = 0
     /\ pc \in {"r_subnet", "r_probe", "done"}
     /\ pc = "done" => result.ok = "True"

C8_Witness ==
  /\ callNo = 2 /\ fn = "register" /\ pc = "done"
  /\ prev.fn = "register" /\ prev.ok = "True" /\ prev.reg /\ prev.line = 202
  /\ result.ok = "True" /\ cnt.solve = 0 /\ cnt.submit = 0

\* C9: a faucet call never sees more than 3 successful submissions; it
\* returns (True, "Max successes reached: 3") only with exactly 3; after the
\* third success it makes no further Solver call or submission, and unless
\* it is interrupted first it returns that result.
C9_MaxSuccesses ==
  fn = "faucet" =>
    /\ cnt.ok <= MaxSuccesses
    /\ result.msg = "Max successes reached" =>
         (cnt.ok = MaxSuccesses /\ result.ok = "True" /\ result.arg = MaxSuccesses)
    /\ cnt.ok = MaxSuccesses => pc \in {"f_outcome", "done"}
    /\ (cnt.ok = MaxSuccesses /\ pc = "done" /\ cnt.intr = 0) =>
         result.msg = "Max successes reached"

C9_Witness ==
  /\ fn = "faucet" /\ pc = "done" /\ retLine = 463
  /\ result.msg = "Max successes reached" /\ cnt.ok = 3
  /\ cnt.fail + cnt.staleFirst >= 1

\* C10 (as claimed): the faucet returns "Max attempts reached" only when the
\* last max_allowed_attempts submissions all failed, with no success between
\* them.
C10_Claim ==
  (fn = "faucet" /\ result.msg = "Max attempts reached") =>
    cnt.consec = max_allowed_attempts

\* C10 (amended): the ceiling bounds the total number of failed submissions
\* of a call: the attempt counter is 1 plus the failures handled so far
\* whatever successes lie between them, the call returns
\* (False, "Max attempts reached: N") only with exactly N failures, makes no
\* Solver call or submission after the N-th, and unless interrupted first it
\* returns that result.
C10_Amended ==
  fn = "faucet" =>
    /\ cnt.fail <= max_allowed_attempts
    /\ pc \in {"f_solve", "f_stale", "f_submit"} => attempts = 1 + cnt.fail
    /\ result.msg = "Max attempts reached" =>
         /\ cnt.fail = max_allowed_attempts
         /\ result.ok = "False" /\ result.arg = max_allowed_attempts
    /\ cnt.fail = max_allowed_attempts => pc \in {"f_outcome", "done"}
    /\ (cnt.fail = max_allowed_attempts /\ pc = "done" /\ cnt.intr = 0) =>
         result.msg = "Max attempts reached"

C10_Witness ==
  /\ fn = "faucet" /\ pc = "done" /\ retLine = 466
  /\ result.msg = "Max attempts reached"
  /\ cnt.ok >= 1 /\ cnt.consec < max_allowed_attempts

\* C11 (as claimed): a burned_register_extrinsic call whose submission was
\* rejected has returned True exactly when the error text contained
\* "already registered", and False for any other text.
C11_Claim ==
  (fn = "burned" /\ pc = "done" /\ cnt.submit = 1 /\ cnt.ok = 0) =>
    (result.ok = IF cnt.already = 1 THEN "True" ELSE "False")

\* C12: a burned_register_extrinsic call makes at most one submission; none
\* when the subnet does not exist, when the precondition probe found the
\* hotkey registered, or when the confirmation was declined; and once its
\* submission has failed the call has returned False.
C12_SingleSubmission ==
  fn = "burned" =>
    /\ cnt.submit <= 1
    /\ (~subnet \/ cnt.declined >= 1 \/ retLine = 279) => cnt.submit = 0
    /\ (cnt.submit = 1 /\ cnt.ok = 0) =>
         (pc = "done" /\ result.ok = "False" /\ retLine = 299)

C12_Witness ==
  /\ fn = "burned" /\ pc = "done" /\ retLine = 299
  /\ cnt.submit = 1 /\ cnt.generic = 1 /\ result.ok = "False"

\* C13 (as claimed): a faucet call that received a KeyboardInterrupt at its
\* balance read or anywhere after it (the prompt excepted) has returned
\* (True, "Done").
C13_Claim ==
  (fn = "faucet" /\ cnt.intr >= 1 /\ retLine # 365) =>
    (pc = "done" /\ result.ok = "True" /\ result.msg = "Done")

\* C14: when the subnet does not exist (and subnet_exists answers), a
\* register_extrinsic or burned_register_extrinsic call makes no probe, no
\* Solver call and no submission, never sets an attempt counter, and its
\* first step returns False.
C14_NoSubnet ==
  (fn \in {"register", "burned"} /\ ~subnet /\ cnt.transport = 0) =>
    /\ cnt = ZeroCnt /\ attempts = 0
    /\ pc \in {EntryPc(fn), "done"}
    /\ pc = "done" => (result.ok = "False" /\ retLine \in {89, 256})

C14_Witness ==
  /\ ~subnet
  /\ fn = "register" /\ pc = "done" /\ retLine = 89 /\ result.ok = "False"
  /\ cnt.probe = 0 /\ cnt.solve = 0 /\ cnt.submit = 0 /\ attempts = 0

SubmitPcs == {"r_submit", "f_submit"}

StalePcs == {"r_stale", "f_stale"}

StaleAnswers(c) == c.staleFirst + c.staleLater

\* C15: in register_extrinsic and run_faucet_extrinsic the submit position is
\* entered only by a step in which is_stale answered False for the current
\* solution, every submission is made from that position and uses up that
\* one answer, the solution held there is the latest Solver result, and a
\* step in which is_stale answers True goes to the Solver call.
C15_FreshBeforeSubmit ==
  /\ [](HasPow(fn) =>
          /\ cnt.fresh - cnt.submit \in {0, 1}
          /\ pc \in SubmitPcs =>
               (cnt.fresh = cnt.submit + 1 /\ pow_result > 0 /\ pow_result = cnt.solve))
  /\ [][(HasPow(fn) /\ cnt'.submit > cnt.submit) =>
          (pc \in SubmitPcs /\ cnt'.submit = cnt.submit + 1 /\ cnt'.fresh = cnt.fresh)]_vars
  /\ [][(HasPow(fn) /\ callNo' = callNo /\ pc' \in SubmitPcs /\ pc \notin SubmitPcs) =>
          (pc \in StalePcs /\ cnt'.fresh = cnt.fresh + 1 /\ pow_result' = pow_result
           /\ StaleAnswers(cnt') = StaleAnswers(cnt))]_vars
  /\ [][(HasPow(fn) /\ StaleAnswers(cnt') > StaleAnswers(cnt)) =>
          pc' \in {"r_solve", "f_solve"}]_vars

C15_Witness ==
  /\ fn = "register" /\ pc = "r_submit"
  /\ cnt.curSubs = 2 /\ cnt.submit = 2 /\ cnt.fresh = 3 /\ cnt.solve = 1

\* C16 (as claimed): a register_extrinsic call in which a Chain Client call
\* failed with a transport failure has not ended by raising.
C16_Claim ==
  (fn = "register" /\ cnt.transport >= 1) => result.ok # "raise"

C20_Claim ==
  HasPow(fn) => cnt.curSubs <= 1

\* C21 (as claimed): a do_pow_register failure whose error message is None
\* is handled like any other generic rejection: register_extrinsic does not
\* return True for it and does not raise; the call goes on in its submit loop
\* or ends with a boolean.
C21_Claim ==
  (fn = "register" /\ cnt.noneErr >= 1 /\ cnt.transport = 0)
    => /\ result.ok \in {"none", "True", "False"}
       /\ retLine # 185

\* C22: in register_extrinsic and run_faucet_extrinsic the attempt counter,
\* once created, is within 1..max_allowed_attempts in every state, and the
\* faucet's success counter within 1..3; inside one call each counter is
\* created as 1 (0 stands for "not created yet") and afterwards changes only
\* by +1: it never decreases and is never reset.
C22_AttemptCounter ==
  /\ [](HasPow(fn) /\ attempts # 0
          => attempts \in 1..max_allowed_attempts)
  /\ [](fn = "faucet" /\ successes # 0 => successes \in 1..MaxSuccesses)
  /\ [][(HasPow(fn) /\ callNo' = callNo)
          => /\ attempts' \in {attempts, attempts + 1}
             /\ successes' \in {successes, successes + 1}]_vars

C22_Witness ==
  /\ fn = "faucet" /\ pc = "f_solve"
  /\ max_allowed_attempts = 2 /\ attempts = 2
  /\ successes = MaxSuccesses

\* C23 (as claimed): in register_extrinsic every Solver call is preceded by
\* a registration probe made after the latest counted failure: the
\* precondition probe, one probe per null Solver result, one per unconfirmed
\* success, and one more precondition probe per counted failure.
C23_Claim ==
  [][(fn = "register" /\ cnt'.solve > cnt.solve)
       => cnt.probe >= 1 + cnt.null + cnt.unconf + cnt.nullUnreg]_vars

\* C23 (amended): in register_extrinsic a counted failure below the ceiling
\* goes straight back to the Solver call: that step makes the one
\* is_hotkey_registered probe of line 156 and adds one to the attempt
\* counter; the next step of the call is a Solver call (or the return for
\* unavailable CUDA) with no probe and no subnet check in between, whether
\* or not the hotkey has been registered meanwhile. The probes made before
\* any Solver call are the precondition probe, one per null Solver result
\* and one per unconfirmed success, and no more.
C23_Amended ==
  [][(fn = "register" /\ callNo' = callNo)
       => /\ (cnt'.nullUnreg > cnt.nullUnreg /\ attempts < max_allowed_attempts)
               => /\ pc' = "r_solve"
                  /\ attempts' = attempts + 1
                  /\ cnt'.probe = cnt.probe + 1
                  /\ cnt'.solve = cnt.solve
          /\ (pc = "r_solve" /\ pc' # pc)
               => /\ cnt'.probe = cnt.probe
                  /\ \/ cnt'.solve = cnt.solve + 1
                     \/ cnt'.cudaOff = cnt.cudaOff + 1 /\ retLine' = 128
          /\ (cnt'.solve > cnt.solve)
               => cnt.probe = 1 + cnt.null + cnt.unconf]_vars

C23_Witness ==
  /\ fn = "register" /\ pc = "done" /\ retLine = 163
  /\ result.ok = "True" /\ registered
  /\ cnt.nullUnreg = 1 /\ cnt.null = 2 /\ cnt.solve = 2 /\ cnt.submit = 0
  /\ cnt.probe = 3

\* C24: register_extrinsic returns True only in a step that is a
\* registration probe answered "registered" (lines 101, 163, 202) or a
\* submission rejected with "key is already registered" (line 185); the step
\* in which a submission succeeds never returns True.
C24_Soundness ==
  [][(fn = "register" /\ callNo' = callNo)
       => /\ (result'.ok = "True" /\ result.ok # "True")
               => \/ /\ cnt'.probe = cnt.probe + 1
                     /\ registered
                     /\ retLine' \in {101, 163, 202}
                  \/ /\ cnt'.already = cnt.already + 1
                     /\ cnt'.submit = cnt.submit + 1
                     /\ retLine' = 185
          /\ (cnt'.ok > cnt.ok) => result'.ok # "True"]_vars

C24_Witness ==
  /\ fn = "register" /\ pc = "done" /\ result.ok = "True"
  /\ retLine = 202 /\ registered
  /\ cnt.ok >= 2 /\ cnt.unconf >= 1 /\ cnt.generic >= 1

C26_BoundedWork ==
  fn = "faucet"
    => /\ cnt.submit <= max_allowed_attempts + 2
       /\ cnt.fail <= max_allowed_attempts
       /\ cnt.ok <= MaxSuccesses
       /\ cnt.submit = max_allowed_attempts + 2
            => /\ pc \in {"f_outcome", "done"}
               /\ (pc = "done" /\ cnt.intr = 0)
                    => result.msg \in {"Max attempts reached",
                                       "Max successes reached"}

C26_Witness ==
  /\ fn = "faucet" /\ pc = "done" /\ cnt.intr = 0
  /\ max_allowed_attempts = 2 /\ cnt.submit = 4
  /\ cnt.fail = 1 /\ cnt.ok = 3

\* C27: in run_faucet_extrinsic a null or stale Solver result is neither
\* submitted nor counted: the step that receives it goes back to the Solver
\* call and changes neither counter nor the number of submissions; what is
\* submitted is a non-null solution whose staleness check just answered
\* "fresh"; and without any submission neither ceiling result is returned
\* and both counters stay at 1.
C27_NullOrStaleResolved ==
  /\ [][(/\ fn = "faucet" /\ callNo' = callNo
         /\ \/ cnt'.null > cnt.null
            \/ StaleAnswers(cnt') > StaleAnswers(cnt))
          => /\ pc' = "f_solve"
             /\ attempts' = attempts /\ successes' = successes
             /\ cnt'.submit = cnt.submit
             /\ result' = result]_vars
  /\ [](fn = "faucet" /\ pc = "f_submit"
          => pow_result > 0 /\ cnt.fresh = cnt.submit + 1)
  /\ [](fn = "faucet" /\ cnt.submit = 0
          => /\ attempts <= 1 /\ successes <= 1
             /\ result.msg \notin {"Max attempts reached",
                                   "Max successes reached"})

C27_Witness ==
  /\ fn = "faucet" /\ pc = "f_solve"
  /\ cnt.null >= 2 /\ cnt.staleFirst >= 2 /\ cnt.submit = 0
  /\ attempts = 1 /\ successes = 1

====
